---- MODULE Spec2Model ----
(***************************************************************************)
(* Customization fulfillment pipeline of the Shopify custom design app:    *)
(* the live webhook handler (webhookHandler), the manual recovery script   *)
(* (main and processOrderPayload), and the template-key resolution both    *)
(* embed.                                                                  *)
(*                                                                         *)
(* A string is a sequence of atoms.  Text the code inspects character by   *)
(* character (titles, variant titles, order names) is a sequence of        *)
(* one-character strings; a fixed fragment of a template literal is one    *)
(* atom, and an interpolated number is its decimal numeral, one atom.      *)
(***************************************************************************)
EXTENDS Integers, Sequences, FiniteSets, TLC

VARIABLES
  bundler,    \* the repack harness: one template bundle and what steps 2 to 4 make of it
  resolver,   \* the resolver harness: one (title, variant) pair and the keys computed for it
  order,      \* the order as the order platform holds it: name, note, tags, line items
  event,      \* the ORDERS_CREATE payload (the order as it was created)
  csv,        \* the lines of orders.csv, header first
  clock,      \* the value Date.now() returns
  designs,    \* the designs bucket: key -> the run and item whose put wrote it last
  live,       \* the webhookHandler invocations, one per delivery of the event
  replay,     \* the main() process of manual-recovery.js and its current processOrderPayload call
  fetched,    \* GetObject requests sent to the templates bucket
  puts,       \* PutObject requests sent to the designs bucket
  queries,    \* the rows main() has issued an order query for, with what came of each
  mutations,  \* addTagsAndUpdateNote mutations sent to the order platform
  finished,   \* the webhookHandler / processOrderPayload invocations that have returned
  faults,     \* how many requests the environment has failed or spoilt so far
  responses   \* per delivery: what was posted to /webhooks and the status it was answered with

vars == <<bundler, resolver, order, event, csv, clock, designs, live, replay,
          fetched, puts, queries, mutations, finished, faults, responses>>

-----------------------------------------------------------------------------
(* Bounds of the model.                                                    *)

MaxTitleParts == 3   \* a title of the resolver harness is at most this many fragments
MaxItems == 3        \* line items of the order
MaxDeliveries == 2   \* deliveries of the order-creation event (1 = no redelivery)
MaxRows == 2         \* data rows of orders.csv
MaxClock == 1        \* Date.now() ranges over 0..MaxClock
MaxFaults == 1       \* requests the environment fails (S3, sharp, JSZip, order platform)
MaxEntries == 3      \* entries of a template bundle of the repack harness

-----------------------------------------------------------------------------
(* String primitives of JavaScript the code uses.                          *)

LowerLetters ==
  <<"a","b","c","d","e","f","g","h","i","j","k","l","m",
    "n","o","p","q","r","s","t","u","v","w","x","y","z">>
UpperLetters ==
  <<"A","B","C","D","E","F","G","H","I","J","K","L","M",
    "N","O","P","Q","R","S","T","U","V","W","X","Y","Z">>

UpperChar(c) ==
  IF \E i \in 1..26 : LowerLetters[i] = c
  THEN UpperLetters[CHOOSE i \in 1..26 : LowerLetters[i] = c]
  ELSE c

LowerChar(c) ==
  IF \E i \in 1..26 : UpperLetters[i] = c
  THEN LowerLetters[CHOOSE i \in 1..26 : UpperLetters[i] = c]
  ELSE c

toUpperCase(s) == [i \in 1..Len(s) |-> UpperChar(s[i])]
toLowerCase(s) == [i \in 1..Len(s) |-> LowerChar(s[i])]

\* the characters the regular expression class \s matches, among those used
IsWhitespace(c) == c \in {" ", "\t"}

\* String.prototype.indexOf, 1-based; 0 when pat does not occur
indexOf(s, pat) ==
  LET hits == {i \in 1..(Len(s) - Len(pat) + 1) : SubSeq(s, i, i + Len(pat) - 1) = pat}
  IN  IF hits = {} THEN 0 ELSE CHOOSE i \in hits : \A j \in hits : i <= j

includes(s, pat) == indexOf(s, pat) # 0

\* s.replace(pat, rep) with a string pattern: the first occurrence only
replaceFirst(s, pat, rep) ==
  LET i == indexOf(s, pat)
  IN  IF i = 0 THEN s
      ELSE SubSeq(s, 1, i - 1) \o rep \o SubSeq(s, i + Len(pat), Len(s))

RECURSIVE SkipWhitespace(_)
SkipWhitespace(s) ==
  IF s # <<>> /\ IsWhitespace(Head(s)) THEN SkipWhitespace(Tail(s)) ELSE s

\* s.replace(/\s/g, "_"): every whitespace character becomes an underscore of its own
replaceEachWhitespace(s) == [i \in 1..Len(s) |-> IF IsWhitespace(s[i]) THEN "_" ELSE s[i]]

\* s.replace(/\s+/g, "_"): every maximal whitespace run becomes one underscore
RECURSIVE replaceWhitespaceRuns(_)
replaceWhitespaceRuns(s) ==
  IF s = <<>> THEN <<>>
  ELSE IF IsWhitespace(Head(s))
       THEN <<"_">> \o replaceWhitespaceRuns(SkipWhitespace(Tail(s)))
       ELSE <<Head(s)>> \o replaceWhitespaceRuns(Tail(s))

\* s.trim()
RECURSIVE TrimRight(_)
TrimRight(s) ==
  IF s # <<>> /\ IsWhitespace(s[Len(s)]) THEN TrimRight(SubSeq(s, 1, Len(s) - 1)) ELSE s
trim(s) == TrimRight(SkipWhitespace(s))

-----------------------------------------------------------------------------
(* Template resolution, as embedded in the two entry points.               *)

Hyphen == <<"-">>
TSHIRT == <<"T","-","S","H","I","R","T">>
TSHIRTEscaped == <<"T","-","-","S","H","I","R","T">>
WHITE == <<"w","h","i","t","e">>
GOLDENYELLOW == <<"g","o","l","d","e","n"," ","y","e","l","l","o","w">>
FORLIGHT == <<"_","F","O","R","_","L","I","G","H","T",".","z","i","p">>
FORDARK == <<"_","F","O","R","_","D","A","R","K",".","z","i","p">>

\* webhookHandler: item.title.toUpperCase().replace(/\s+/g, '_').replace('-', '--')
baseFilenameLive(title) ==
  replaceFirst(replaceWhitespaceRuns(toUpperCase(title)), Hyphen, <<"-","-">>)

\* processOrderPayload: item.title.toUpperCase().replace(/\s+/g, "_").replace("T-SHIRT", "T--SHIRT")
baseFilenameReplay(title) ==
  replaceFirst(replaceWhitespaceRuns(toUpperCase(title)), TSHIRT, TSHIRTEscaped)

\* the light/dark selection both entry points share
templateSuffix(variant_title) ==
  LET variantTitle == toLowerCase(variant_title)
  IN  IF includes(variantTitle, WHITE) \/ includes(variantTitle, GOLDENYELLOW)
      THEN FORLIGHT ELSE FORDARK

templateKeyLive(title, variant_title) ==
  baseFilenameLive(title) \o templateSuffix(variant_title)

templateKeyReplay(title, variant_title) ==
  baseFilenameReplay(title) \o templateSuffix(variant_title)

templateKey(path, title, variant_title) ==
  IF path = "live" THEN templateKeyLive(title, variant_title)
  ELSE templateKeyReplay(title, variant_title)

-----------------------------------------------------------------------------
(* The order platform, the two buckets and the process environment.        *)

CALL_SIGN == "call_sign"
HAS_CUSTOM_DESIGN == <<"has_custom_design">>
MANUAL_RECOVERY == <<"manual_recovery">>

AWS_REGION == "us-east-1"
AWS_DESIGNS_BUCKET == "designs-bucket"
AWS_TEMPLATES_BUCKET == "templates-bucket"

ClassicCap == <<"C","l","a","s","s","i","c"," ","C","a","p">>
Mug == <<"M","u","g">>
WhiteL == <<"W","h","i","t","e"," ","/"," ","L">>
BlackM == <<"B","l","a","c","k"," ","/"," ","M">>

OrderName == <<"#","1","0","0","1">>
UnknownName == <<"#","9","9","9","9">>
OrderGid == <<"gid:", "", "shopify", "Order", 1001>>

\* the decimal digits, and the numeral of a natural number as the platform writes it
DigitChars == <<"0", "1", "2", "3", "4", "5", "6", "7", "8", "9">>
RECURSIVE Digits(_)
Digits(n) ==
  IF n < 10 THEN <<DigitChars[n + 1]>>
  ELSE Digits(n \div 10) \o <<DigitChars[(n % 10) + 1]>>

\* Number(numericId), for a string of decimal digits
RECURSIVE Number(_)
Number(numeral) ==
  IF numeral = <<>> THEN 0
  ELSE 10 * Number(SubSeq(numeral, 1, Len(numeral) - 1))
         + (CHOOSE d \in 0..9 : DigitChars[d + 1] = numeral[Len(numeral)])

\* edge.node.id.split('/').pop(), a global id being held as its segments
pop(segments) == segments[Len(segments)]

\* "gid://shopify/LineItem/<n>", split at "/"
LineItemGid(n) == <<"gid:", "", "shopify", "LineItem", Digits(n)>>

\* the template bundles uploaded to the templates bucket; no bundle exists for Mug
templates == {<<"C","L","A","S","S","I","C","_","C","A","P">> \o FORLIGHT,
              <<"C","L","A","S","S","I","C","_","C","A","P">> \o FORDARK}

\* the line items a customer can put in an order
ItemKinds == {"custom", "plain", "blank", "notemplate"}

KindNode(kind, n) ==
  [id |-> LineItemGid(n),
   title |-> IF kind = "notemplate" THEN Mug ELSE ClassicCap,
   variantTitle |-> IF kind = "custom" THEN WhiteL ELSE BlackM,
   customAttributes |->
     CASE kind = "custom" -> <<[key |-> CALL_SIGN, value |-> "N1ABC"]>>
       [] kind = "notemplate" -> <<[key |-> CALL_SIGN, value |-> "K2XYZ"]>>
       [] kind = "blank" -> <<[key |-> CALL_SIGN, value |-> ""]>>
       [] OTHER -> <<[key |-> "gift_wrap", value |-> "yes"]>>]

NoteCatalogue == {<<>>, <<"Leave at the door">>}
RowCatalogue == {OrderName, UnknownName, <<>>}
CsvHeader == <<"O","r","d","e","r","N","u","m","b","e","r">>

RECURSIVE SeqsUpTo(_, _)
SeqsUpTo(S, n) ==
  IF n = 0 THEN {<<>>}
  ELSE LET shorter == SeqsUpTo(S, n - 1)
       IN  shorter \cup {Append(q, x) : q \in {t \in shorter : Len(t) = n - 1}, x \in S}

\* the ORDERS_CREATE webhook body for an order node of the platform
WebhookPayload(node) ==
  [name |-> node.name,
   note |-> node.note,
   admin_graphql_api_id |-> node.id,
   line_items |->
     [k \in 1..Len(node.lineItems) |->
        [id |-> Number(pop(node.lineItems[k].id)),
         title |-> node.lineItems[k].title,
         variant_title |-> node.lineItems[k].variantTitle,
         properties |->
           [j \in 1..Len(node.lineItems[k].customAttributes) |->
              [name |-> node.lineItems[k].customAttributes[j].key,
               value |-> node.lineItems[k].customAttributes[j].value]]]]]

-----------------------------------------------------------------------------
(* The per-order logic webhookHandler and processOrderPayload share.       *)

\* item.properties?.find(p => p.name === 'call_sign'): the first such property
HasCallSignProperty(item) ==
  \E j \in 1..Len(item.properties) : item.properties[j].name = CALL_SIGN

callSignOf(item) ==
  LET js == {j \in 1..Len(item.properties) : item.properties[j].name = CALL_SIGN}
  IN  item.properties[CHOOSE j \in js : \A k \in js : j <= k].value

\* a test of the property's presence alone, whatever its value
propPresent(item) == HasCallSignProperty(item)

\* if (prop?.value)
propValueTruthy(item) == HasCallSignProperty(item) /\ callSignOf(item) # ""

\* payload.line_items.filter(i => i.properties?.some(p => p.name === 'call_sign')).length
totalCustomItems(payload) ==
  Cardinality({k \in 1..Len(payload.line_items) : HasCallSignProperty(payload.line_items[k])})

\* the position of the last such line item from position i on, not the next; 0 if none
lastCustomItem(payload, i) ==
  LET ks == {k \in i..Len(payload.line_items) : propValueTruthy(payload.line_items[k])}
  IN  IF ks = {} THEN 0 ELSE CHOOSE k \in ks : \A m \in ks : k >= m

\* the position of the next line item the loop body runs for, from position i on; 0 if none
nextCustomItem(payload, i) ==
  LET ks == {k \in i..Len(payload.line_items) : propValueTruthy(payload.line_items[k])}
  IN  IF ks = {} THEN 0 ELSE CHOOSE k \in ks : \A m \in ks : k <= m

\* s.split(sep), for a non-empty separator
RECURSIVE split(_, _)
split(s, sep) ==
  LET i == indexOf(s, sep)
  IN  IF i = 0 THEN <<s>>
      ELSE <<SubSeq(s, 1, i - 1)>> \o split(SubSeq(s, i + Len(sep), Len(s)), sep)

UnknownColor == <<"UnknownColor">>
UnknownSize == <<"UnknownSize">>

\* a derived tag that leaves the call sign out
colorSizeTag(item) ==
  LET variantParts == split(item.variant_title, <<" ", "/", " ">>)
  IN  trim(variantParts[1]) \o <<"/">> \o trim(variantParts[2])

\* processOrderPayload: `${variantColor}/${variantSize}/${callSign}`
newTag(item) ==
  LET variantParts == split(item.variant_title, <<" ", "/", " ">>)
      variantColor == IF variantParts[1] # <<>> THEN trim(variantParts[1]) ELSE UnknownColor
      variantSize == IF Len(variantParts) >= 2 /\ variantParts[2] # <<>>
                     THEN trim(variantParts[2]) ELSE UnknownSize
  IN  variantColor \o <<"/">> \o variantSize \o <<"/", callSignOf(item)>>

\* a key that leaves the line item out: `designs/${name}-${Date.now()}.zip`
keyPerOrder(payload, item, now) ==
  <<"designs/">> \o replaceFirst(payload.name, <<"#">>, <<>>) \o <<"-", ToString(now), ".zip">>

\* `designs/${payload.name.replace('#', '')}-${item.id}-${Date.now()}.zip`
newZipKey(payload, item, now) ==
  <<"designs/">> \o replaceFirst(payload.name, <<"#">>, <<>>)
    \o <<"-", ToString(item.id), "-", ToString(now), ".zip">>

\* webhookHandler: `https://${AWS_DESIGNS_BUCKET}.s3.${AWS_REGION}.amazonaws.com/${newImageKey}`
newImageUrl(key) ==
  <<"https://", AWS_DESIGNS_BUCKET, ".s3.", AWS_REGION, ".amazonaws.com/">> \o key

\* processOrderPayload: `https://s3.${AWS_REGION}.amazonaws.com/${AWS_DESIGNS_BUCKET}/${newZipKey}`
newFileUrl(key) ==
  <<"https://s3.", AWS_REGION, ".amazonaws.com/", AWS_DESIGNS_BUCKET, "/">> \o key

artifactUrl(path, key) == IF path = "live" THEN newImageUrl(key) ELSE newFileUrl(key)

\* `${orderName}-${itemIndex}/${totalCustomItems}-${url};`
CountedLink(orderName, itemIndex, total, url) ==
  orderName \o <<"-", ToString(itemIndex), "/", ToString(total), "-">> \o url \o <<";">>

\* `${orderName}-${url};`
SimpleLink(orderName, url) == orderName \o <<"-">> \o url \o <<";">>

\* webhookHandler pushes the counted form unconditionally
designLinkLive(payload, itemIndex, url) ==
  CountedLink(payload.name, itemIndex, totalCustomItems(payload), url)

\* processOrderPayload: the counted form only if (totalCustomItems > 1)
designLinkString(payload, itemIndex, url) ==
  IF totalCustomItems(payload) > 1
  THEN CountedLink(payload.name, itemIndex, totalCustomItems(payload), url)
  ELSE SimpleLink(payload.name, url)

designLink(path, payload, itemIndex, url) ==
  IF path = "live" THEN designLinkLive(payload, itemIndex, url)
  ELSE designLinkString(payload, itemIndex, url)

LiveHeader == "--- Custom Design Files ---"
ReplayHeader == "--- Custom Design Files (Manual Recovery) ---"

\* designLinks.join("\n")
RECURSIVE join(_)
join(links) ==
  IF links = <<>> THEN <<>>
  ELSE IF Len(links) = 1 THEN links[1]
  ELSE links[1] \o <<"\n">> \o join(Tail(links))

\* a note that starts over: the header and the links, whatever the payload's note was
noteWithoutExisting(path, payload, designLinks) ==
  <<IF path = "live" THEN LiveHeader ELSE ReplayHeader, "\n">> \o join(designLinks)

\* (payload.note ? `${payload.note}\n\n` : "") + `${header}\n${designLinks.join("\n")}`
newNote(path, payload, designLinks) ==
  (IF payload.note # <<>> THEN payload.note \o <<"\n", "\n">> ELSE <<>>)
    \o <<IF path = "live" THEN LiveHeader ELSE ReplayHeader, "\n">> \o join(designLinks)

\* the tags the mutation starts from
initialTags(path) ==
  IF path = "live" THEN <<HAS_CUSTOM_DESIGN>> ELSE <<HAS_CUSTOM_DESIGN, MANUAL_RECOVERY>>

\* a step 5 that does not look at the links collected
alwaysAnnotate(designLinks) == TRUE

\* if (designLinks.length > 0)
shouldAnnotate(designLinks) == Len(designLinks) > 0

-----------------------------------------------------------------------------
(* Steps 2 and 3 of the loop body: the template bundle, unzipped, edited   *)
(* and packed again.  An archive is the sequence of its entries in archive *)
(* order, each a path and its bytes; no two entries share a path.          *)

TEMPLATE_PNG == <<"t","e","m","p","l","a","t","e",".","p","n","g">>
DESIGN_PNG == <<"d","e","s","i","g","n",".","p","n","g">>

\* String.prototype.endsWith
endsWith(s, suffix) ==
  Len(s) >= Len(suffix) /\ SubSeq(s, Len(s) - Len(suffix) + 1, Len(s)) = suffix

\* a lookup that takes whatever entry comes first
anyEntry(zip) == zip

\* zip.file(/template\.png$/): the entries whose path the pattern matches, in archive order
zipFileMatching(zip) == SelectSeq(zip, LAMBDA e : endsWith(e.path, TEMPLATE_PNG))

\* newZip.file(path, data): the entry is added, or replaces the entry already at that path
zipFile(zip, path, data) ==
  IF \E i \in 1..Len(zip) : zip[i].path = path
  THEN [i \in 1..Len(zip) |-> IF zip[i].path = path THEN [path |-> path, data |-> data]
                                                   ELSE zip[i]]
  ELSE Append(zip, [path |-> path, data |-> data])

\* sharp(templatePngBytes).composite([{ input: svgBuffer }]).png().toBuffer()
composite(templatePngBytes, callSign) == <<"png", templatePngBytes, callSign>>

\* a loop that copies every entry of the bundle, the templatable ones too
copyAll(zip, newZip) == zip

\* for (const [relativePath, file] of Object.entries(zip.files)): the entries whose path
\* does not end with "template.png" are copied into newZip
RECURSIVE copySiblings(_, _)
copySiblings(zip, newZip) ==
  IF zip = <<>> THEN newZip
  ELSE copySiblings(Tail(zip),
                    IF ~endsWith(Head(zip).path, TEMPLATE_PNG)
                    THEN zipFile(newZip, Head(zip).path, Head(zip).data)
                    ELSE newZip)

\* step 3: new JSZip(), the copy loop, then newZip.file("design.png", finishedImageBuffer)
repack(zip, finishedImageBuffer) ==
  zipFile(copySiblings(zip, <<>>), DESIGN_PNG, finishedImageBuffer)

\* steps 2 and 3 for one bundle: throws when no entry matches, else the archive to upload
unzipAndRepack(zip, callSign) ==
  LET matches == zipFileMatching(zip)
  IN  IF matches = <<>>
      THEN [status |-> "threw", zip |-> <<>>]
      ELSE [status |-> "repacked", zip |-> repack(zip, composite(matches[1].data, callSign))]

\* step 4 and the push of the link, reached only when steps 2 and 3 did not throw: the
\* bodies put into the designs bucket and the number of links pushed
uploadAndLink(out) ==
  IF out.status = "repacked"
  THEN [stored |-> <<out.zip>>, links |-> 1]
  ELSE [stored |-> <<>>, links |-> 0]

IdleBundler ==
  [zip |-> <<>>, callSign |-> "", out |-> [status |-> "idle", zip |-> <<>>],
   stored |-> <<>>, links |-> 0]

-----------------------------------------------------------------------------
(* One invocation of webhookHandler or processOrderPayload.                *)

NoPayload == [name |-> <<>>, note |-> <<>>, admin_graphql_api_id |-> <<>>, line_items |-> <<>>]

IdleRun ==
  [pc |-> "idle", payload |-> NoPayload, i |-> 1, itemIndex |-> 0,
   designLinks |-> <<>>, dynamicTags |-> <<>>,
   result |-> "none", failedItem |-> 0, failedStage |-> "none"]

\* entry into the try block: the loop runs for the first customizable item, or is over at once
NewRun(path, payload) ==
  [IdleRun EXCEPT
     !.pc = IF nextCustomItem(payload, 1) = 0 THEN "annotate" ELSE "items",
     !.payload = payload,
     !.dynamicTags = initialTags(path),
     !.result = "running"]

\* the stages of the loop body that can throw
Stages == {"fetch", "unzip", "compose", "repack", "put"}

\* the order the awaits of the loop body stand in
StageOrder == <<"fetch", "unzip", "compose", "repack", "put">>
StageIndex(stage) == CHOOSE i \in 1..Len(StageOrder) : StageOrder[i] = stage

\* a loop body whose requests do not wait for one another
reachedAnyway(stage, failed) == TRUE

\* a stage is entered when no stage before it threw
reached(stage, failed) == failed = "none" \/ StageIndex(stage) <= StageIndex(failed)

\* a GetObject aimed at the bucket the artifacts go to
getFromDesigns(key) == [Bucket |-> AWS_DESIGNS_BUCKET, Key |-> key]

\* const getObjectParams = { Bucket: process.env.AWS_TEMPLATES_BUCKET, Key: templateKey }
getObjectParams(key) == [Bucket |-> AWS_TEMPLATES_BUCKET, Key |-> key]

\* const putObjectParams = { Bucket: process.env.AWS_DESIGNS_BUCKET, Key: newZipKey, ... }
putObjectParams(newKey) == [Bucket |-> AWS_DESIGNS_BUCKET, Key |-> newKey]

\* the two buckets are separate address spaces: what a bucket holds under a key
bucketHolds(params) ==
  IF params.Bucket = AWS_TEMPLATES_BUCKET
  THEN params.Key \in templates
  ELSE \E d \in designs : d.key = params.Key

\* GetObject rejects for a key the bucket it is sent to does not hold
fetchTemplate(key) == bucketHolds(getObjectParams(key))

\* what the environment can make of the loop body for an item: the stage that throws, or "none"
StageChoices(path, item) ==
  IF fetchTemplate(templateKey(path, item.title, item.variant_title))
  THEN {"none"} \cup (IF faults < MaxFaults THEN Stages ELSE {})
  ELSE {"fetch"}

\* Date.now() never runs backwards, and need not have moved since it was last read
Now == clock..MaxClock

\* the loop body for the next customizable item; failed names the stage that threw, or "none"
AfterItem(path, r, failed, now) ==
  LET k == nextCustomItem(r.payload, r.i)
      item == r.payload.line_items[k]
      itemIndex == r.itemIndex + 1
      tags == IF path = "live" THEN r.dynamicTags ELSE Append(r.dynamicTags, newTag(item))
      url == artifactUrl(path, newZipKey(r.payload, item, now))
  IN  IF failed # "none"
      THEN \* the catch around the whole loop: the invocation returns
           [r EXCEPT !.pc = "done", !.i = k, !.itemIndex = itemIndex, !.dynamicTags = tags,
                     !.result = "failed", !.failedItem = k, !.failedStage = failed]
      ELSE [r EXCEPT !.pc = IF nextCustomItem(r.payload, k + 1) = 0 THEN "annotate" ELSE "items",
                     !.i = k + 1, !.itemIndex = itemIndex, !.dynamicTags = tags,
                     !.designLinks = Append(r.designLinks, designLink(path, r.payload, itemIndex, url))]

\* neither webhookHandler nor processOrderPayload has a return statement, and both catch
\* what they throw: the caller's await yields undefined whatever the invocation did
returnValue(r) == "undefined"

\* a returned invocation: what it logged (result), what it had collected, what it returned
Summary(rid, r) ==
  [rid |-> rid, result |-> r.result, failedItem |-> r.failedItem,
   failedStage |-> r.failedStage, designLinks |-> r.designLinks, dynamicTags |-> r.dynamicTags,
   returns |-> returnValue(r)]

Range(s) == {s[i] : i \in 1..Len(s)}

\* the requests the loop body sends for one item, and the record of a returned invocation
ItemEffects(path, rid, r, failed, now, new) ==
  LET k == nextCustomItem(r.payload, r.i)
      item == r.payload.line_items[k]
      template == templateKey(path, item.title, item.variant_title)
      key == newZipKey(r.payload, item, now)
  IN  /\ fetched' = fetched \cup {[rid |-> rid, item |-> item.id, key |-> template,
                                    command |-> "GetObject",
                                    bucket |-> getObjectParams(template).Bucket]}
      /\ puts' = IF reached("put", failed)
                 THEN puts \cup {[rid |-> rid, item |-> item.id, key |-> key, ok |-> failed = "none",
                                  command |-> "PutObject",
                                  bucket |-> putObjectParams(key).Bucket]}
                 ELSE puts
      /\ designs' = IF failed = "none"
                    THEN {d \in designs : d.key # key} \cup {[key |-> key, rid |-> rid, item |-> item.id]}
                    ELSE designs
      /\ clock' = now
      /\ faults' = IF failed # "none" /\ fetchTemplate(template) THEN faults + 1 ELSE faults
      /\ finished' = IF new.pc = "done" THEN finished \cup {Summary(rid, new)} ELSE finished
      /\ UNCHANGED <<bundler, resolver, order, event, csv, queries, mutations>>

\* what the order platform can answer to the mutation
MutationOutcomes == {"ok", "tagsError", "noteError", "bothError", "throw"}

\* step 5: the mutation has been answered, or was not sent ("unsent")
AfterAnnotate(r, outcome) ==
  [r EXCEPT !.pc = "done",
            !.result = CASE outcome = "ok" -> "updated"
                         [] outcome = "throw" -> "failed"
                         [] outcome = "unsent" -> "nothing"
                         [] OTHER -> "errors"]

\* step 5: the mutation as sent and what the platform applies of it, or nothing at all
AnnotateEffects(path, rid, r, outcome, new) ==
  LET note == newNote(path, r.payload, r.designLinks)
  IN  /\ mutations' = IF outcome = "unsent" THEN mutations
                       ELSE mutations \cup
                              {[rid |-> rid, id |-> r.payload.admin_graphql_api_id,
                                tags |-> r.dynamicTags, note |-> note, outcome |-> outcome]}
      /\ order' = [order EXCEPT
            !.tags = IF outcome \in {"ok", "noteError"} THEN @ \cup Range(r.dynamicTags) ELSE @,
            !.note = IF outcome \in {"ok", "tagsError"} THEN note ELSE @]
      /\ finished' = finished \cup {Summary(rid, new)}
      /\ faults' = IF outcome \in {"ok", "unsent"} THEN faults ELSE faults + 1
      /\ UNCHANGED <<bundler, resolver, event, csv, clock, designs, fetched, puts, queries>>

\* the answers step 5 can get for the links collected
AnnotateChoices(designLinks) ==
  IF shouldAnnotate(designLinks)
  THEN IF faults < MaxFaults THEN MutationOutcomes ELSE {"ok"}
  ELSE {"unsent"}

-----------------------------------------------------------------------------
(* The live path: one webhookHandler invocation per delivery.              *)

LiveRid(d) == <<"live", d>>

\* what can be posted to /webhooks: the signed event, a signed body that is not JSON, and
\* a request whose HMAC does not match its body
Deliveries == {"valid", "malformed", "unsigned"}

NoResponse == [delivery |-> "none", status |-> 0]

\* const payload = JSON.parse(body) throws a SyntaxError unless the body is JSON
parses(delivery) == delivery # "malformed"

\* the handler with its catch block taken away: a failed stage rejects the promise
handlerRethrows(r) == IF r.result = "failed" THEN "rejected" ELSE "resolved"

\* how the promise of webhookHandler settles once the try block was entered: the catch
\* block logs whatever was thrown in it and the function ends normally
handlerSettles(r) == "resolved"

\* shopify.webhooks.process: 401 and no callback for a signature that does not verify,
\* 500 when the callback rejects, 200 when it resolves; the response is sent either way,
\* so the catch block of the route finds res.headersSent and adds nothing
webhooksProcess(delivery, settled) ==
  CASE delivery = "unsigned" -> 401
    [] settled = "rejected" -> 500
    [] OTHER -> 200

\* the response a delivery gets when its invocation takes a step to new
respond(d, new) ==
  IF new.pc = "done"
  THEN [responses EXCEPT ![d].status = webhooksProcess(responses[d].delivery, handlerSettles(new))]
  ELSE responses

\* the requests that can arrive next: a spoilt one counts against the fault budget
DeliveryChoices == IF faults < MaxFaults THEN Deliveries ELSE {"valid"}

\* a delivery arrives at app.post('/webhooks'): the signature is verified, the callback
\* runs const payload = JSON.parse(body), and the try block is entered
webhookHandler(d) ==
  /\ live[d].pc = "idle"
  /\ IF d = 1 THEN TRUE ELSE live[d - 1].pc # "idle"
  /\ \E delivery \in DeliveryChoices :
       IF delivery = "valid"
       THEN /\ live' = [live EXCEPT ![d] = NewRun("live", event)]
            /\ responses' = [responses EXCEPT ![d] = [delivery |-> delivery, status |-> 0]]
            /\ faults' = faults
       ELSE /\ live' = [live EXCEPT ![d] = [IdleRun EXCEPT !.pc = "done"]]
            /\ faults' = faults + 1
            /\ responses' = [responses EXCEPT ![d] =
                               [delivery |-> delivery,
                                status |-> webhooksProcess(delivery,
                                             IF parses(delivery) THEN "resolved" ELSE "rejected")]]
  /\ UNCHANGED <<bundler, resolver, order, event, csv, clock, designs, replay, fetched, puts,
                 queries, mutations, finished>>

\* one turn of the loop of webhookHandler that enters if (prop?.value)
webhookHandlerItem(d) ==
  /\ live[d].pc = "items"
  /\ \E failed \in StageChoices("live",
                     live[d].payload.line_items[nextCustomItem(live[d].payload, live[d].i)]) :
     \E now \in Now :
       LET new == AfterItem("live", live[d], failed, now)
       IN  /\ live' = [live EXCEPT ![d] = new]
           /\ ItemEffects("live", LiveRid(d), live[d], failed, now, new)
           /\ responses' = respond(d, new)
  /\ UNCHANGED replay

\* step 5 of webhookHandler
webhookHandlerAnnotate(d) ==
  /\ live[d].pc = "annotate"
  /\ \E outcome \in AnnotateChoices(live[d].designLinks) :
       LET new == AfterAnnotate(live[d], outcome)
       IN  /\ live' = [live EXCEPT ![d] = new]
           /\ AnnotateEffects("live", LiveRid(d), live[d], outcome, new)
           /\ responses' = respond(d, new)
  /\ UNCHANGED replay

-----------------------------------------------------------------------------
(* The replay path: main() of manual-recovery.js.                          *)

ReplayRid(row) == <<"replay", row>>

IsBlank(line) == trim(line) = <<>>

\* fileContent.trim().split('\n'): blank lines at either end of the file go with the trim
RECURSIVE DropLeadingBlank(_)
DropLeadingBlank(lines) ==
  IF lines # <<>> /\ IsBlank(Head(lines)) THEN DropLeadingBlank(Tail(lines)) ELSE lines
RECURSIVE DropTrailingBlank(_)
DropTrailingBlank(lines) ==
  IF lines # <<>> /\ IsBlank(lines[Len(lines)])
  THEN DropTrailingBlank(SubSeq(lines, 1, Len(lines) - 1)) ELSE lines

\* the same without rows.shift(): the header row stays in the list
ordersWithHeader(lines) ==
  LET rows == DropTrailingBlank(DropLeadingBlank(lines))
  IN  [k \in 1..Len(rows) |-> trim(rows[k])]

\* rows.shift(), then rows.map(row => ({ OrderNumber: row.trim() }))
ordersToProcess(lines) ==
  LET rows == DropTrailingBlank(DropLeadingBlank(lines))
      data == IF rows = <<>> THEN <<>> ELSE Tail(rows)
  IN  [k \in 1..Len(data) |-> trim(data[k])]

\* a guard on the recovery tag instead of the base marker tag
alreadyRecovered(tags) == MANUAL_RECOVERY \in tags

\* orderNode.tags.includes("has_custom_design")
alreadyAnnotated(tags) == HAS_CUSTOM_DESIGN \in tags

\* a reshaping that hands the line items over last first
reversedPayload(orderNode) ==
  [name |-> orderNode.name,
   note |-> orderNode.note,
   admin_graphql_api_id |-> orderNode.id,
   line_items |->
     [k \in 1..Len(orderNode.lineItems) |->
        LET node == orderNode.lineItems[Len(orderNode.lineItems) + 1 - k]
        IN  [id |-> Number(pop(node.id)),
             title |-> node.title,
             variant_title |-> node.variantTitle,
             properties |->
               [j \in 1..Len(node.customAttributes) |->
                  [name |-> node.customAttributes[j].key,
                   value |-> node.customAttributes[j].value]]]]]

\* the payload main() builds from the queried order node
formattedPayload(orderNode) ==
  [name |-> orderNode.name,
   note |-> orderNode.note,
   admin_graphql_api_id |-> orderNode.id,
   line_items |->
     [k \in 1..Len(orderNode.lineItems) |->
        [id |-> Number(pop(orderNode.lineItems[k].id)),
         title |-> orderNode.lineItems[k].title,
         variant_title |-> orderNode.lineItems[k].variantTitle,
         properties |->
           [j \in 1..Len(orderNode.lineItems[k].customAttributes) |->
              [name |-> orderNode.lineItems[k].customAttributes[j].key,
               value |-> orderNode.lineItems[k].customAttributes[j].value]]]]]

\* a loop that ends at the row in hand instead of moving to the next
breakLoop(rp) == [rp EXCEPT !.pc = "complete", !.run = IdleRun]

\* a loop that takes up the row in hand again
sameRow(rp) == [rp EXCEPT !.pc = "loop", !.run = IdleRun]

\* the for loop moves to the next row, or main() logs completion
NextRow(rp) ==
  [rp EXCEPT !.row = rp.row + 1,
             !.pc = IF rp.row + 1 > Len(rp.rows) THEN "complete" ELSE "loop",
             !.run = IdleRun]

\* main() reads orders.csv
MainStart ==
  /\ replay.pc = "start"
  /\ LET rows == ordersToProcess(csv)
     IN  replay' = [replay EXCEPT !.rows = rows,
                                  !.row = 1,
                                  !.pc = IF rows = <<>> THEN "complete" ELSE "loop"]
  /\ UNCHANGED <<bundler, resolver, order, event, csv, clock, designs, live, fetched, puts,
                 queries, mutations, finished, faults, responses>>

\* if (!orderName) continue
MainSkipBlank ==
  /\ replay.pc = "loop"
  /\ replay.rows[replay.row] = <<>>
  /\ replay' = NextRow(replay)
  /\ UNCHANGED <<bundler, resolver, order, event, csv, clock, designs, live, fetched, puts,
                 queries, mutations, finished, faults, responses>>

\* processOrderPayload has returned: back in the for loop of main()
Returned(rp) == IF rp.run.pc = "done" THEN NextRow(rp) ELSE rp

\* the order query is answered (or rejects), and main() acts on the answer
MainQuery ==
  /\ replay.pc = "loop"
  /\ replay.rows[replay.row] # <<>>
  /\ \E answered \in {TRUE} \cup (IF faults < MaxFaults THEN {FALSE} ELSE {}) :
       LET orderName == replay.rows[replay.row]
           found == answered /\ orderName = order.name
           outcome == CASE ~answered -> "error"
                        [] ~found -> "notfound"
                        [] alreadyAnnotated(order.tags) -> "skipped"
                        [] OTHER -> "processed"
       IN  /\ queries' = queries \cup
                 {[row |-> replay.row, orderName |-> orderName,
                   tags |-> IF found THEN order.tags ELSE {}, outcome |-> outcome]}
           /\ replay' = IF outcome = "processed"
                        THEN [replay EXCEPT !.pc = "call",
                                            !.run = NewRun("replay", formattedPayload(order))]
                        ELSE NextRow(replay)
           /\ faults' = IF answered THEN faults ELSE faults + 1
  /\ UNCHANGED <<bundler, resolver, order, event, csv, clock, designs, live, fetched, puts,
                 mutations, finished, responses>>

\* one turn of the loop of processOrderPayload that enters if (prop?.value)
processOrderPayloadItem ==
  /\ replay.pc = "call"
  /\ replay.run.pc = "items"
  /\ \E failed \in StageChoices("replay",
                     replay.run.payload.line_items[nextCustomItem(replay.run.payload, replay.run.i)]) :
     \E now \in Now :
       LET new == AfterItem("replay", replay.run, failed, now)
       IN  /\ replay' = Returned([replay EXCEPT !.run = new])
           /\ ItemEffects("replay", ReplayRid(replay.row), replay.run, failed, now, new)
  /\ UNCHANGED <<live, responses>>

\* step 5 of processOrderPayload
processOrderPayloadAnnotate ==
  /\ replay.pc = "call"
  /\ replay.run.pc = "annotate"
  /\ \E outcome \in AnnotateChoices(replay.run.designLinks) :
       LET new == AfterAnnotate(replay.run, outcome)
       IN  /\ replay' = Returned([replay EXCEPT !.run = new])
           /\ AnnotateEffects("replay", ReplayRid(replay.row), replay.run, outcome, new)
  /\ UNCHANGED <<live, responses>>

-----------------------------------------------------------------------------
(* The resolver harness and the specifications.                            *)

Classic == <<"C","l","a","s","s","i","c">>
Cap == <<"C","a","p">>
TShirt == <<"T","-","S","h","i","r","t">>
TitleFragments == {Classic, Cap, TShirt, <<" ">>, <<"-">>}

GoldenYellowS == <<"G","o","l","d","e","n"," ","Y","e","l","l","o","w"," ","/"," ","S">>
GoldenL == <<"G","o","l","d","e","n"," ","/"," ","L">>
VariantCatalogue == {WhiteL, BlackM, GoldenYellowS, GoldenL}

RECURSIVE Concat(_)
Concat(parts) == IF parts = <<>> THEN <<>> ELSE Head(parts) \o Concat(Tail(parts))

Titles == {Concat(parts) : parts \in SeqsUpTo(TitleFragments, MaxTitleParts)}

IdleResolver == [title |-> <<>>, variant_title |-> <<>>, keys |-> {}]

\* one entry point resolves the harness's (title, variant) pair
Resolve(path) ==
  /\ resolver.keys # {} \/ resolver.title # <<>>
  /\ resolver' = [resolver EXCEPT
        !.keys = @ \cup {[path |-> path,
                          key |-> templateKey(path, resolver.title, resolver.variant_title)]}]
  /\ UNCHANGED <<bundler, order, event, csv, clock, designs, live, replay, fetched, puts,
                 queries, mutations, finished, faults, responses>>

\* the entry paths a designer can put in a template bundle
PathCatalogue ==
  {TEMPLATE_PNG,
   <<"f","r","o","n","t","/">> \o TEMPLATE_PNG,
   <<"b","a","c","k","_">> \o TEMPLATE_PNG,
   DESIGN_PNG,
   <<"r","e","a","d","m","e",".","t","x","t">>}

\* the bundles of at most MaxEntries entries, no path twice, each entry with bytes of its own
Bundles ==
  {[i \in 1..Len(paths) |-> [path |-> paths[i], data |-> <<"bytes of", paths[i]>>]] :
     paths \in {q \in SeqsUpTo(PathCatalogue, MaxEntries) :
                  \A i, j \in 1..Len(q) : i # j => q[i] # q[j]}}

\* steps 2 and 3 run for the harness's bundle
Repack ==
  /\ bundler.out.status = "idle"
  /\ LET out == unzipAndRepack(bundler.zip, bundler.callSign)
     IN  bundler' = [bundler EXCEPT !.out = out,
                                    !.stored = uploadAndLink(out).stored,
                                    !.links = uploadAndLink(out).links]
  /\ UNCHANGED <<resolver, order, event, csv, clock, designs, live, replay, fetched, puts,
                 queries, mutations, finished, faults, responses>>

\* the state before anything runs: the order as placed, the file as written, and the
\* number of times the event source will deliver the order-creation event
InitOrder(kinds, note, rows, deliveries) ==
  /\ order = [id |-> OrderGid, name |-> OrderName, note |-> note, tags |-> {},
              lineItems |-> [k \in 1..Len(kinds) |-> KindNode(kinds[k], 100 + k)]]
  /\ event = WebhookPayload(order)
  /\ csv = <<CsvHeader>> \o rows
  /\ clock = 0
  /\ designs = {}
  /\ live = [d \in 1..deliveries |-> IdleRun]
  /\ replay = [pc |-> "start", rows |-> <<>>, row |-> 0, run |-> IdleRun]
  /\ fetched = {}
  /\ puts = {}
  /\ queries = {}
  /\ mutations = {}
  /\ finished = {}
  /\ faults = 0
  /\ responses = [d \in 1..deliveries |-> NoResponse]

Orders == SeqsUpTo(ItemKinds, MaxItems) \ {<<>>}
OneItemOrders == {<<kind>> : kind \in ItemKinds}
Files == SeqsUpTo(RowCatalogue, MaxRows)

\* Any order through either entry point alone; a one-item order whose event is redelivered;
\* and a one-item order delivered once while main() runs over any orders.csv.
Scenarios ==
  [kinds : Orders, note : NoteCatalogue, rows : {<<>>}, deliveries : {1}]
    \cup [kinds : Orders, note : NoteCatalogue, rows : {<<OrderName>>}, deliveries : {0}]
    \cup [kinds : OneItemOrders, note : {<<>>}, rows : {<<>>}, deliveries : {MaxDeliveries}]
    \cup [kinds : OneItemOrders, note : {<<>>}, rows : Files, deliveries : {1}]

Init ==
  /\ bundler = IdleBundler
  /\ resolver = IdleResolver
  /\ \E sc \in Scenarios : InitOrder(sc.kinds, sc.note, sc.rows, sc.deliveries)

Next ==
  \/ \E d \in DOMAIN live : webhookHandler(d)
  \/ \E d \in DOMAIN live : webhookHandlerItem(d)
  \/ \E d \in DOMAIN live : webhookHandlerAnnotate(d)
  \/ MainStart
  \/ MainSkipBlank
  \/ MainQuery
  \/ processOrderPayloadItem
  \/ processOrderPayloadAnnotate

Spec == Init /\ [][Next]_vars

\* some handler, or main(), stands at a statement it can execute: a delivery not yet
\* handed to the endpoint, an await of the loop body or of step 5, a row of the for loop
CanStep ==
  \/ \E d \in DOMAIN live :
       \/ live[d].pc \in {"items", "annotate"}
       \/ live[d].pc = "idle" /\ (IF d = 1 THEN TRUE ELSE live[d - 1].pc # "idle")
  \/ replay.pc \in {"start", "loop", "call"}

\* Every external call returns or fails and the event loop resumes what awaited it: as
\* long as something can step, a step is taken.  This is WF_vars(Next) with ENABLED
\* <<Next>>_vars written out as CanStep.
Fairness == []<>(~CanStep) \/ []<><<Next>>_vars

SpecLive == Init /\ [][Next]_vars /\ Fairness

InitResolve ==
  /\ bundler = IdleBundler
  /\ \E title \in Titles \ {<<>>}, variant_title \in VariantCatalogue :
       resolver = [title |-> title, variant_title |-> variant_title, keys |-> {}]
  /\ InitOrder(<<"custom">>, <<>>, <<>>, 0)

NextResolve == \E path \in {"live", "replay"} : Resolve(path)

SpecResolve == InitResolve /\ [][NextResolve]_vars

InitRepack ==
  /\ \E zip \in Bundles : bundler = [IdleBundler EXCEPT !.zip = zip, !.callSign = "N1ABC"]
  /\ resolver = IdleResolver
  /\ InitOrder(<<"custom">>, <<>>, <<>>, 0)

NextRepack == Repack

SpecRepack == InitRepack /\ [][NextRepack]_vars

-----------------------------------------------------------------------------
(* Properties.  What they say of an order is said of the order as placed   *)
(* (event) and of what the runs left behind (fetched, puts, designs,       *)
(* mutations, finished, queries, order).                                   *)

\* a line item is customizable iff it carries a call_sign property with a non-empty value
Customizable(item) ==
  \E j \in 1..Len(item.properties) :
    item.properties[j].name = CALL_SIGN /\ item.properties[j].value # ""

CustomizablePositions == {k \in 1..Len(event.line_items) : Customizable(event.line_items[k])}

\* every invocation has returned and main() has finished
Quiescent ==
  /\ \A d \in DOMAIN live : live[d].pc = "done"
  /\ replay.pc = "complete"

\* the link lines of a note: what follows its last header line, one line per "\n"
Headers == {LiveHeader, ReplayHeader}
LinkLines(note) ==
  LET hs == {i \in 1..Len(note) : note[i] \in Headers}
  IN  IF hs = {} THEN <<>>
      ELSE split(SubSeq(note, (CHOOSE i \in hs : \A j \in hs : j <= i) + 2, Len(note)), <<"\n">>)

\* all the link lines of a note, whichever header they stand under
AllLinkLines(note) ==
  LET lines == split(note, <<"\n">>)
  IN  {i \in 1..Len(lines) : lines[i] # <<>> /\ lines[i][Len(lines[i])] = ";"}

\* C1: per-item failure isolation.  When a stage fails for one customizable item of an
\* invocation, every later customizable item of the order is still fetched by that
\* invocation, and the invocation still sends the mutation if an item had succeeded.
C1_FailureIsolation ==
  \A f \in finished :
    f.failedItem # 0 =>
      /\ \A k \in CustomizablePositions :
           k > f.failedItem =>
             \E x \in fetched : x.rid = f.rid /\ x.item = event.line_items[k].id
      /\ f.designLinks # <<>> => \E m \in mutations : m.rid = f.rid

\* C2: exactly-once fulfillment.  Whatever deliveries and replay runs cover the order, a
\* customizable item never has more than one artifact in the designs bucket nor more than
\* one link line in the order's note, and has exactly one of each once everything has
\* returned without a failed request.
C2_ExactlyOnce ==
  \A k \in CustomizablePositions :
    LET id == event.line_items[k].id
        artifacts == {d \in designs : d.item = id}
        lines == {i \in AllLinkLines(order.note) :
                    includes(split(order.note, <<"\n">>)[i], <<"-", ToString(id), "-">>)}
    IN  /\ Cardinality(artifacts) <= 1
        /\ Cardinality(lines) <= 1
        /\ (Quiescent /\ finished # {} /\ faults = 0
              /\ \A f \in finished : f.result = "updated")
             => Cardinality(artifacts) = 1 /\ Cardinality(lines) = 1

\* C3: replay idempotency guard.  For every order query of main() whose answer carries the
\* has_custom_design tag, processOrderPayload is not called: the row is skipped, nothing is
\* fetched, put or mutated on behalf of that row, and the loop has moved past it.
C3_ReplayGuard ==
  \A q \in queries :
    HAS_CUSTOM_DESIGN \in q.tags =>
      /\ q.outcome = "skipped"
      /\ \A x \in fetched \cup puts \cup mutations \cup finished : x.rid # ReplayRid(q.row)
      /\ replay.row > q.row

\* a tagged order was queried and skipped, and main() went on to query a later row
C3_Witness ==
  \E q \in queries :
    /\ HAS_CUSTOM_DESIGN \in q.tags
    /\ q.outcome = "skipped"
    /\ \E q2 \in queries : q2.row > q.row

\* C4: no customizable item, no effect.  If no line item of the order carries a call_sign
\* property with a non-empty value, nothing is fetched or stored, no mutation is sent, and
\* the order keeps the note and the tags it was created with.
C4_NothingToDo ==
  CustomizablePositions = {} =>
    /\ fetched = {}
    /\ puts = {}
    /\ designs = {}
    /\ mutations = {}
    /\ order.note = event.note
    /\ order.tags = {}

\* an order whose only call_sign is empty has been through both entry points
C4_Witness ==
  /\ CustomizablePositions = {}
  /\ \E k \in 1..Len(event.line_items) : HasCallSignProperty(event.line_items[k])
  /\ \E f \in finished : f.rid[1] = "live" /\ f.result = "nothing"
  /\ \E f \in finished : f.rid[1] = "replay" /\ f.result = "nothing"

\* the order has exactly one customizable item and no bundle exists for its template key
OnlyItemLacksTemplate ==
  /\ Cardinality(CustomizablePositions) = 1
  /\ \A k \in CustomizablePositions :
       /\ templateKeyLive(event.line_items[k].title, event.line_items[k].variant_title)
            \notin templates
       /\ templateKeyReplay(event.line_items[k].title, event.line_items[k].variant_title)
            \notin templates

\* C5: missing template.  When the only customizable item's template key is absent from the
\* templates bucket, no invocation collects a link, nothing is put into the designs bucket,
\* no mutation is sent and the order keeps its note and tags; and whatever the order, a
\* mutation is only ever sent by an invocation that collected at least one link.
C5_MissingTemplate ==
  /\ OnlyItemLacksTemplate =>
       /\ \A f \in finished : f.designLinks = <<>>
       /\ puts = {}
       /\ designs = {}
       /\ mutations = {}
       /\ order.note = event.note
       /\ order.tags = {}
  /\ \A m \in mutations :
       /\ \E f \in finished : f.rid = m.rid /\ f.designLinks # <<>>
       /\ LinkLines(m.note) # <<>> /\ LinkLines(m.note)[1] # <<>>

\* the fetch for the only customizable item was rejected, on both entry points
C5_Witness ==
  /\ OnlyItemLacksTemplate
  /\ \E f \in finished : f.rid[1] = "live" /\ f.failedStage = "fetch" /\ f.failedItem # 0
  /\ \E f \in finished : f.rid[1] = "replay" /\ f.failedStage = "fetch" /\ f.failedItem # 0

\* the first atom of an artifact URL, on either entry point
UrlHeads == {"https://", "https://s3."}

\* C6: single-item link format.  For an order with exactly one customizable item, every
\* link line sent in a mutation's note is the order name, "-", the artifact URL and ";",
\* with no index/total counter between the name and the URL.
C6_SingleItemFormat ==
  Cardinality(CustomizablePositions) = 1 =>
    \A m \in mutations :
      \A i \in 1..Len(LinkLines(m.note)) :
        LET line == LinkLines(m.note)[i]
            n == Len(event.name)
        IN  /\ Len(line) >= n + 3
            /\ SubSeq(line, 1, n + 1) = event.name \o <<"-">>
            /\ line[n + 2] \in UrlHeads
            /\ line[Len(line)] = ";"

\* C7: multi-item link format.  For an order with N > 1 customizable items, a mutation sent
\* by an invocation that processed them all carries exactly N link lines, and the k-th line
\* carries the counter k/N.
C7_MultiItemFormat ==
  LET N == Cardinality(CustomizablePositions)
      n == Len(event.name)
  IN  N > 1 =>
        \A m \in mutations :
          (\E f \in finished : f.rid = m.rid /\ Len(f.designLinks) = N) =>
            /\ Len(LinkLines(m.note)) = N
            /\ \A k \in 1..N :
                 /\ Len(LinkLines(m.note)[k]) >= n + 6
                 /\ SubSeq(LinkLines(m.note)[k], 1, n + 5)
                      = event.name \o <<"-", ToString(k), "/", ToString(N), "-">>

\* C8: store-key uniqueness.  No two puts the designs bucket has accepted, whichever
\* invocations sent them, carry the same key; so no put replaces an object an earlier put
\* stored.
C8_KeyUniqueness ==
  \A p1, p2 \in puts : (p1 # p2 /\ p1.ok /\ p2.ok) => p1.key # p2.key

\* The normalised title, position by position: a character that is not whitespace gives its
\* upper case, the first character of a whitespace run gives "_", the others give nothing.
NormalisedAt(title, i) ==
  IF ~IsWhitespace(title[i]) THEN <<UpperChar(title[i])>>
  ELSE IF i > 1 /\ IsWhitespace(title[i - 1]) THEN <<>>
  ELSE <<"_">>

Normalised(title) == Concat([i \in 1..Len(title) |-> NormalisedAt(title, i)])

\* the light suffix iff "white" or "golden yellow" occurs in the variant, whatever the case
Suffix(variant_title) ==
  LET v == toLowerCase(variant_title)
      Occurs(w) == \E i \in 1..Len(v) : i + Len(w) - 1 <= Len(v) /\ SubSeq(v, i, i + Len(w) - 1) = w
  IN  IF Occurs(WHITE) \/ Occurs(GOLDENYELLOW) THEN FORLIGHT ELSE FORDARK

\* s with one more "-" after position i; s itself for i = 0
HyphenAddedAt(s, i) ==
  IF i = 0 THEN s
  ELSE [j \in 1..(Len(s) + 1) |-> IF j <= i THEN s[j] ELSE IF j = i + 1 THEN "-" ELSE s[j - 1]]

\* where each entry point doubles a hyphen: the live one at the first "-", the replay one
\* at the hyphen of the first "T-SHIRT"; 0 if it doubles none
EscapedPosition(path, s) ==
  LET at == IF path = "live"
            THEN {i \in 1..Len(s) : s[i] = "-"}
            ELSE {i \in 2..Len(s) : i + 5 <= Len(s) /\ SubSeq(s, i - 1, i + 5) = TSHIRT}
  IN  IF at = {} THEN 0 ELSE CHOOSE i \in at : \A j \in at : i <= j

CLASSIC_CAP_FOR_LIGHT ==
  <<"C","L","A","S","S","I","C","_","C","A","P","_","F","O","R","_","L","I","G","H","T",
    ".","z","i","p">>

\* C9: template resolution.  The key an entry point resolves is the upper-cased title with
\* every whitespace run replaced by "_", with one hyphen doubled (the first "-" on the live
\* path, the one of the first "T-SHIRT" on the replay path), followed by "_FOR_LIGHT.zip"
\* if the lower-cased variant contains "white" or "golden yellow" and by "_FOR_DARK.zip"
\* otherwise; an entry point resolves one key only for the same inputs; and
\* ("Classic Cap", "White / L") resolves to "CLASSIC_CAP_FOR_LIGHT.zip".
C9_Resolution ==
  \A r \in resolver.keys :
    LET base == Normalised(resolver.title)
    IN  /\ r.key = HyphenAddedAt(base, EscapedPosition(r.path, base)) \o Suffix(resolver.variant_title)
        /\ \A r2 \in resolver.keys : r2.path = r.path => r2.key = r.key
        /\ (resolver.title = ClassicCap /\ resolver.variant_title = WhiteL)
             => r.key = CLASSIC_CAP_FOR_LIGHT

\* both entry points have resolved ("Classic Cap", "White / L")
C9_Witness ==
  /\ resolver.title = ClassicCap
  /\ resolver.variant_title = WhiteL
  /\ resolver.keys = {[path |-> "live", key |-> CLASSIC_CAP_FOR_LIGHT],
                      [path |-> "replay", key |-> CLASSIC_CAP_FOR_LIGHT]}

\* C9 as stated: the key is the upper-cased title with every whitespace run replaced by
\* "_", followed by the suffix, and nothing else.
C9_AsStated ==
  \A r \in resolver.keys :
    r.key = Normalised(resolver.title) \o Suffix(resolver.variant_title)

CountOf(c, s) == Cardinality({i \in 1..Len(s) : s[i] = c})

\* C10: hyphen escaping.  Every hyphen of the title appears doubled in the resolved key:
\* the key holds twice as many hyphens as the title, however many the title holds.
C10_EveryHyphenDoubled ==
  \A r \in resolver.keys :
    CountOf("-", r.key) = 2 * CountOf("-", resolver.title)

\* a path whose last characters spell "template.png"
EndsInTemplatePng(path) ==
  \E k \in 0..Len(path) : [j \in 1..(Len(path) - k) |-> path[k + j]] = TEMPLATE_PNG

\* the positions of the bundle's templatable entries, and the one step 2 edits: the first
TemplatablePositions == {i \in 1..Len(bundler.zip) : EndsInTemplatePng(bundler.zip[i].path)}
ChosenPosition == CHOOSE i \in TemplatablePositions : \A j \in TemplatablePositions : i <= j

\* C11: repack output entry names.  For a bundle that contains a templatable entry, steps 2
\* and 3 produce an archive with exactly one entry named "design.png", holding the
\* composite of the first templatable entry and the call sign, and with no entry whose
\* path ends with "template.png".
C11_RepackNames ==
  (bundler.out.status # "idle" /\ TemplatablePositions # {}) =>
    /\ bundler.out.status = "repacked"
    /\ Cardinality({j \in 1..Len(bundler.out.zip) : bundler.out.zip[j].path = DESIGN_PNG}) = 1
    /\ \A j \in 1..Len(bundler.out.zip) :
         /\ bundler.out.zip[j].path = DESIGN_PNG =>
              bundler.out.zip[j].data
                = <<"png", bundler.zip[ChosenPosition].data, bundler.callSign>>
         /\ ~EndsInTemplatePng(bundler.out.zip[j].path)

\* a bundle with a templatable entry and other entries has been repacked
C11_Witness ==
  /\ bundler.out.status = "repacked"
  /\ TemplatablePositions # {}
  /\ Len(bundler.zip) > 1

\* C12: repack sibling preservation.  Every entry of the bundle other than the one chosen
\* as the templatable raster is in the repacked archive under its original path with the
\* bytes it had, a sibling named "design.png" and a second entry ending in "template.png"
\* included.
C12_SiblingsPreserved ==
  bundler.out.status = "repacked" =>
    \A i \in 1..Len(bundler.zip) :
      i # ChosenPosition =>
        \E j \in 1..Len(bundler.out.zip) :
          /\ bundler.out.zip[j].path = bundler.zip[i].path
          /\ bundler.out.zip[j].data = bundler.zip[i].data

\* the answers to the mutation in which the platform reports user errors or none
Answered == {"ok", "tagsError", "noteError", "bothError"}

\* C13: partial annotation failure is surfaced distinctly.  An invocation logs the order as
\* updated only if neither tagsAdd nor orderUpdate returned user errors, and two
\* invocations whose mutations were answered differently (no error, tags failed, note
\* failed) hand different outcomes back to their callers.
C13_PartialFailureSurfaced ==
  \A m1 \in mutations : \A f1 \in finished :
    f1.rid = m1.rid =>
      /\ f1.result = "updated" => m1.outcome = "ok"
      /\ \A m2 \in mutations : \A f2 \in finished :
           (f2.rid = m2.rid /\ m1.outcome # m2.outcome /\ {m1.outcome, m2.outcome} \subseteq Answered)
             => f1.returns # f2.returns

\* every row main() has left behind that names an order has had its query; a row whose
\* query failed, found no order, or whose processing threw has been left behind; and
\* main() logs completion only past the last row
RowsBehindAttempted ==
  /\ \A k \in 1..Len(replay.rows) :
       (k < replay.row /\ replay.rows[k] # <<>>) => \E q \in queries : q.row = k
  /\ \A q \in queries :
       (\/ q.outcome \in {"error", "notfound"}
        \/ \E f \in finished : f.rid = ReplayRid(q.row) /\ f.result = "failed")
         => replay.row > q.row
  /\ replay.pc = "complete" => replay.row = Len(replay.rows) + 1

\* how far main() is from logging completion: the rows ahead, and within the row in hand
\* the steps ahead (the query, the line items not yet looked at, step 5)
StepsAhead ==
  LET perRow == Len(order.lineItems) + 3
      rowsAhead == Len(replay.rows) - replay.row + 1
  IN  CASE replay.pc = "start" -> perRow * (Len(csv) + 1)
        [] replay.pc = "loop" -> perRow * rowsAhead + perRow - 1
        [] replay.pc = "call" ->
             perRow * rowsAhead
               + (IF replay.run.pc = "items"
                  THEN Len(replay.run.payload.line_items) - replay.run.i + 2 ELSE 1)
        [] OTHER -> 0

\* C14: batch error containment.  Whatever fails for a row (the query rejects, the name
\* resolves to no order, an item stage or the mutation throws), main() moves past that row
\* with every row before the one in hand attempted, logs completion only past the last
\* row, and every step it takes brings it closer to that.
C14_BatchContainment ==
  /\ [](RowsBehindAttempted)
  /\ [][replay' # replay => (StepsAhead' < StepsAhead /\ StepsAhead' >= 0)]_vars

\* main() has completed a list in which a query failed or found no order, and the row
\* after it was processed
C14_Witness ==
  /\ replay.pc = "complete"
  /\ \E q1, q2 \in queries :
       /\ q1.row < q2.row
       /\ q1.outcome \in {"error", "notfound"}
       /\ q2.outcome = "processed"

\* the data rows of orders.csv that name an order: line k + 1 of the file is data row k
NamedRows == {k \in 1..(Len(csv) - 1) : ~IsBlank(csv[k + 1])}

\* C15: replay sequencing.  main() never queries for the header row or a blank row; it
\* queries at most once per data row, for the row's trimmed text; a row is queried only
\* when every named row before it has been queried and, if it was processed, its
\* processOrderPayload call has returned; every request of the replay path belongs to the
\* row in hand or to a call that has returned; and once main() has completed, every named
\* row has been queried.
C15_ReplaySequencing ==
  /\ \A q \in queries :
       /\ q.row \in NamedRows
       /\ q.orderName = trim(csv[q.row + 1])
       /\ \A q2 \in queries : q2.row = q.row => q2 = q
       /\ \A k \in NamedRows :
            k < q.row =>
              \E q1 \in queries :
                /\ q1.row = k
                /\ q1.outcome = "processed" => \E f \in finished : f.rid = ReplayRid(k)
  /\ \A x \in fetched \cup puts \cup mutations \cup finished :
       x.rid[1] = "replay" =>
         \E q \in queries :
           /\ q.row = x.rid[2]
           /\ q.outcome = "processed"
           /\ \/ replay.pc = "call" /\ replay.row = q.row
              \/ \E f \in finished : f.rid = x.rid
  /\ replay.pc = "complete" => \A k \in NamedRows : \E q \in queries : q.row = k

\* main() has completed a file whose first data row is blank and whose second was processed
C15_Witness ==
  /\ replay.pc = "complete"
  /\ Len(csv) >= 3
  /\ IsBlank(csv[2])
  /\ \E q \in queries : q.row = 2 /\ q.outcome = "processed"
  /\ \E f \in finished : f.rid = ReplayRid(2)

\* the customizable positions of the order in payload order: the k-th is the position with
\* k - 1 customizable positions before it
KthCustomizable(k) ==
  CHOOSE p \in CustomizablePositions :
    Cardinality({p2 \in CustomizablePositions : p2 < p}) = k - 1

\* the position in the payload of the line item with this id
PositionOf(id) == CHOOSE k \in 1..Len(event.line_items) : event.line_items[k].id = id

\* the link lines collected so far are those of the first customizable items, in payload
\* order: the k-th names the k-th customizable item, and its counter, if it has one, is k
InPayloadOrder(name, links) ==
  /\ Len(links) <= Cardinality(CustomizablePositions)
  /\ \A k \in 1..Len(links) :
       /\ includes(links[k], <<"-", ToString(event.line_items[KthCustomizable(k)].id), "-">>)
       /\ links[k][Len(name) + 2] \notin UrlHeads
            => SubSeq(links[k], Len(name) + 1, Len(name) + 3) = <<"-", ToString(k), "/">>

\* C16: item ordering.  In every invocation the links are collected one line item at a
\* time in payload order: the k-th link is that of the k-th customizable item and carries
\* index k; the fetches of an invocation are for the first customizable items, none
\* skipped; and the link lines of every note sent stand in that same order.
C16_ItemOrdering ==
  /\ \A d \in DOMAIN live : InPayloadOrder(event.name, live[d].designLinks)
  /\ InPayloadOrder(event.name, replay.run.designLinks)
  /\ \A x \in fetched :
       \A k \in CustomizablePositions :
         k < PositionOf(x.item) => \E y \in fetched : y.rid = x.rid /\ y.item = event.line_items[k].id
  /\ \A m \in mutations :
       /\ InPayloadOrder(event.name, LinkLines(m.note))
       /\ Len(LinkLines(m.note)) = Cardinality(CustomizablePositions)

\* a note with the links of two customizable items, a plain item between them, was sent
C16_Witness ==
  /\ CustomizablePositions = {1, 3}
  /\ \E m \in mutations : Len(LinkLines(m.note)) = 2

FailureStatuses == {401, 500}

\* C17: live-path failure reporting.  A delivery is answered with a failure status only if
\* its signature did not verify or its body did not parse, and in that case no stage of
\* the pipeline ran for it; every delivery whose invocation got past the parse and has
\* returned is answered 200, whatever stage failed in it.
C17_FailureReporting ==
  \A d \in DOMAIN live :
    /\ responses[d].status \in FailureStatuses =>
         /\ responses[d].delivery \in {"malformed", "unsigned"}
         /\ \A x \in fetched \cup puts \cup mutations \cup finished : x.rid # LiveRid(d)
    /\ responses[d].delivery = "valid" /\ live[d].pc = "done" =>
         /\ responses[d].status = 200
         /\ \E f \in finished : f.rid = LiveRid(d)
    /\ \A f \in finished :
         f.rid = LiveRid(d) => responses[d].delivery = "valid" /\ responses[d].status = 200

\* a delivery whose body did not parse was answered 500 and a redelivery a stage of which
\* failed was answered 200
C17_Witness ==
  \E d1, d2 \in DOMAIN live :
    /\ responses[d1].delivery = "malformed" /\ responses[d1].status = 500
    /\ responses[d2].status = 200
    /\ \E f \in finished : f.rid = LiveRid(d2) /\ f.result = "failed"

\* the URL recorded in a link line, from its scheme to the atom before the closing ";"
RecordedUrl(line) ==
  SubSeq(line, CHOOSE i \in 1..Len(line) : line[i] \in UrlHeads, Len(line) - 1)

\* the key of the stored artifact the recorded URL of a link line ends with
RecordedKey(line) ==
  SubSeq(line, CHOOSE i \in 1..Len(line) : line[i] = "designs/", Len(line) - 1)

\* the link lines of every note sent so far
RecordedLinks == UNION {Range(LinkLines(m.note)) : m \in mutations}

\* C18: artifact URL consistency.  The URL recorded for a stored artifact is one function
\* of bucket, region and key on both paths: two recorded links for the same key (the
\* bucket and the region are fixed by the environment) record the same URL.
C18_UrlConsistency ==
  \A l1, l2 \in RecordedLinks :
    RecordedKey(l1) = RecordedKey(l2) => RecordedUrl(l1) = RecordedUrl(l2)

\* "{color}/{size}/{callSign}" read off a line item of the order: the text before and
\* after the " / " of its variant title and the value of its call_sign property
DerivedTag(item) ==
  LET vt == item.variant_title
      cut == CHOOSE i \in 1..Len(vt) - 2 : SubSeq(vt, i, i + 2) = <<" ", "/", " ">>
      sign == CHOOSE v \in {item.properties[j].value : j \in 1..Len(item.properties)} :
                \E j \in 1..Len(item.properties) :
                  item.properties[j].name = CALL_SIGN /\ item.properties[j].value = v
  IN  SubSeq(vt, 1, cut - 1) \o <<"/">> \o SubSeq(vt, cut + 3, Len(vt)) \o <<"/", sign>>

\* C19: annotation tag set.  Every mutation carries has_custom_design.  A mutation of the
\* live path carries nothing else; a mutation of the replay path carries manual_recovery
\* and then one derived tag per link line of its note, the k-th being the
\* color/size/callSign of the k-th customizable line item, and no further tag.
C19_TagSet ==
  \A m \in mutations :
    /\ HAS_CUSTOM_DESIGN \in Range(m.tags)
    /\ m.rid[1] = "live" => m.tags = <<HAS_CUSTOM_DESIGN>>
    /\ m.rid[1] = "replay" =>
         /\ SubSeq(m.tags, 1, 2) = <<HAS_CUSTOM_DESIGN, MANUAL_RECOVERY>>
         /\ Len(m.tags) = 2 + Len(LinkLines(m.note))
         /\ \A k \in 1..Len(LinkLines(m.note)) :
              m.tags[2 + k] = DerivedTag(event.line_items[KthCustomizable(k)])

\* main() sent a mutation for an order with two customizable items and a plain one
C19_Witness ==
  /\ Len(event.line_items) = 3
  /\ \E m \in mutations :
       /\ m.rid[1] = "replay"
       /\ Len(m.tags) = 4
       /\ Len(LinkLines(m.note)) = 2

\* the invocation a mutation was sent by, as it stood when it sent it
SenderOf(m) == IF m.rid[1] = "live" THEN live[m.rid[2]] ELSE replay.run

\* note is existing, a blank line, a header line and the links one per line; or, for an
\* empty existing note, the header line and the links one per line
Composed(note, existing, links) ==
  LET lead == IF existing = <<>> THEN <<>> ELSE existing \o <<"\n", "\n">>
      rest == SubSeq(note, Len(lead) + 1, Len(note))
  IN  /\ Len(note) >= Len(lead) + 3
      /\ SubSeq(note, 1, Len(lead)) = lead
      /\ rest[1] \in Headers
      /\ rest[2] = "\n"
      /\ split(SubSeq(rest, 3, Len(rest)), <<"\n">>) = links

\* C20: note composition.  Every mutation sends a note composed of the note of the payload
\* the invocation was given and the links it collected: the existing note, unmodified, in
\* front, then a blank line, the header and the links when the existing note is not empty,
\* and the header and the links alone when it is.
C20_NoteComposition ==
  [][\A m \in mutations' \ mutations :
       Composed(m.note, SenderOf(m).payload.note, SenderOf(m).designLinks)]_vars

\* a mutation for an order that came with a note: the note sent begins with it, a blank
\* line and a header, and ends with two links
C20_Witness ==
  /\ event.note = <<"Leave at the door">>
  /\ \E m \in mutations :
       /\ SubSeq(m.note, 1, 3) = <<"Leave at the door", "\n", "\n">>
       /\ m.note[4] \in Headers
       /\ Len(LinkLines(m.note)) = 2

\* the requests sent to the object store so far
S3Requests == fetched \cup puts

\* C21: bucket separation.  Every request sent to the object store is a GetObject on the
\* templates bucket or a PutObject on the designs bucket: nothing is written to the
\* templates bucket, nothing is read or deleted from the designs bucket, and the designs
\* bucket holds only what accepted puts stored.
C21_BucketSeparation ==
  /\ \A x \in S3Requests :
       \/ x.command = "GetObject" /\ x.bucket = AWS_TEMPLATES_BUCKET
       \/ x.command = "PutObject" /\ x.bucket = AWS_DESIGNS_BUCKET
  /\ \A x \in fetched : x.command = "GetObject" /\ x.key \notin {d.key : d \in designs}
  /\ \A x \in puts : x.command = "PutObject" /\ x.key \notin templates
  /\ \A d \in designs : \E x \in puts : x.ok /\ x.key = d.key /\ x.rid = d.rid

\* both paths have fetched a template and stored an artifact
C21_Witness ==
  /\ \E x, y \in fetched : x.rid[1] = "live" /\ y.rid[1] = "replay"
  /\ \E x, y \in puts : x.ok /\ y.ok /\ x.rid[1] = "live" /\ y.rid[1] = "replay"

IsPrefix(a, b) == Len(a) <= Len(b) /\ SubSeq(b, 1, Len(a)) = a

\* C22: append-only note under interleaving.  Whenever a mutation changes the note of the
\* order, the note the order held just before it is a prefix of the note it holds after:
\* no run erases what another run wrote.
C22_AppendOnlyNote ==
  [][order'.note # order.note => IsPrefix(order.note, order'.note)]_vars

\* the entry points that have stored an artifact, and those that have sent a mutation
Storers == {x.rid[1] : x \in {p \in puts : p.ok}}
Annotators == {m.rid[1] : m \in mutations}

\* C23: tag-gated annotation without locking.  When the order's event is delivered live
\* once and main() covers the order too, and no request fails, at most one of the two
\* entry points stores artifacts and at most one annotates the order.
C23_TagGatedAnnotation ==
  (DOMAIN live = {1} /\ faults = 0) =>
    /\ Cardinality(Storers) <= 1
    /\ Cardinality(Annotators) <= 1

\* the entry point and the payload position behind a request record
PathOf(rid) == rid[1]

\* what the requests sent so far say about the order of the stages
StagesInOrder ==
  /\ \A p \in puts : \E x \in fetched : x.rid = p.rid /\ x.item = p.item
  /\ \A f \in finished :
       (f.result = "failed" /\ f.failedStage \in {"fetch", "unzip", "compose", "repack"}) =>
         \A p \in puts : ~(p.rid = f.rid /\ p.item = event.line_items[f.failedItem].id)
  /\ \A m \in mutations :
       /\ \A l \in Range(LinkLines(m.note)) :
            \E p \in puts : p.ok /\ p.rid = m.rid /\ p.key = RecordedKey(l)
       /\ \A k \in CustomizablePositions :
            \E p \in puts : p.ok /\ p.rid = m.rid /\ p.item = event.line_items[k].id
       /\ \E f \in finished : f.rid = m.rid
       /\ \A m2 \in mutations : m2.rid = m.rid => m2 = m

\* every fetch a step sends is for the key resolved from the item it is sent for, and a
\* step sends a put only together with or after the fetch for the same item
ResolvedThenFetched ==
  /\ \A x \in fetched' \ fetched :
       LET item == event.line_items[PositionOf(x.item)]
       IN  x.key = templateKey(PathOf(x.rid), item.title, item.variant_title)
  /\ \A p \in puts' \ puts : \E x \in fetched' : x.rid = p.rid /\ x.item = p.item

\* C24: stage ordering and link soundness.  A put is sent only for an item whose resolved
\* template was fetched by the same invocation, and never for the item a stage before the
\* put failed on; every link line of a note sent names the key of a put of the same
\* invocation that succeeded; a mutation is sent only by an invocation all of whose
\* customizable items were put, and each invocation sends at most one mutation, after
\* which it has returned.
C24_StageOrdering ==
  /\ [](StagesInOrder)
  /\ [][ResolvedThenFetched]_vars

\* an invocation stored the artifacts of two customizable items and then sent a note whose
\* two link lines name the two keys
C24_Witness ==
  \E m \in mutations :
    /\ Len(LinkLines(m.note)) = 2
    /\ Cardinality({p \in puts : p.ok /\ p.rid = m.rid}) = 2
    /\ Cardinality({x \in fetched : x.rid = m.rid}) = 2

\* how many times the sequence part occurs in the sequence s
Occurrences(s, part) ==
  Cardinality({i \in 1..(Len(s) - Len(part) + 1) : SubSeq(s, i, i + Len(part) - 1) = part})

\* the URL under which a stored object is reached, as the entry point that stored it writes it
UrlOfPut(p) ==
  IF PathOf(p.rid) = "live"
  THEN <<"https://", AWS_DESIGNS_BUCKET, ".s3.", AWS_REGION, ".amazonaws.com/">> \o p.key
  ELSE <<"https://s3.", AWS_REGION, ".amazonaws.com/", AWS_DESIGNS_BUCKET, "/">> \o p.key

\* the invocation of f stored, for the k customizable items, k objects under k keys, one
\* per customizable item and none for any other item
StoredOnePerItem(f) ==
  LET mine == {p \in puts : p.rid = f.rid}
  IN  /\ \A p \in mine : p.ok
      /\ Cardinality(mine) = Cardinality(CustomizablePositions)
      /\ Cardinality({p.key : p \in mine}) = Cardinality(CustomizablePositions)
      /\ \A k \in 1..Len(event.line_items) :
           Cardinality({p \in mine : p.item = event.line_items[k].id})
             = IF k \in CustomizablePositions THEN 1 ELSE 0

\* C25: successful-run accounting.  While no request for the order has failed, an
\* invocation that has sent its mutation, for an order with k >= 1 customizable items, has
\* stored exactly k objects, one per customizable item; the order carries
\* has_custom_design; and the note it sent contains the URL of each of the k objects
\* exactly once.
C25_SuccessfulRun ==
  \A f \in finished :
    (f.result = "updated" /\ faults = 0) =>
      /\ Cardinality(CustomizablePositions) >= 1
      /\ StoredOnePerItem(f)
      /\ HAS_CUSTOM_DESIGN \in order.tags
      /\ \E m \in mutations :
           /\ m.rid = f.rid
           /\ \A p \in puts : p.rid = f.rid => Occurrences(m.note, UrlOfPut(p)) = 1

\* with no request failed, an invocation has annotated an order of two customizable items
\* and a plain one, and the designs bucket holds its two objects
C25_Witness ==
  /\ faults = 0
  /\ Len(event.line_items) = 3
  /\ \E f \in finished :
       /\ f.result = "updated"
       /\ Cardinality({d \in designs : d.rid = f.rid}) = 2

\* an entry made by the compose step
Composited(e) == Len(e.data) = 3 /\ e.data[1] = "png"

\* C26: missing templatable entry.  When the bundle has no entry whose path ends with
\* "template.png", steps 2 and 3 throw before anything is composed: no archive is built,
\* nothing is put into the designs bucket for the item and no link is pushed for it.
C26_MissingTemplatable ==
  (bundler.out.status # "idle" /\ TemplatablePositions = {}) =>
    /\ bundler.out.status = "threw"
    /\ \A j \in 1..Len(bundler.out.zip) : ~Composited(bundler.out.zip[j])
    /\ bundler.out.zip = <<>>
    /\ bundler.stored = <<>>
    /\ bundler.links = 0

\* a bundle with entries, none of them templatable, went through steps 2 and 3
C26_Witness ==
  /\ bundler.out.status = "threw"
  /\ Len(bundler.zip) >= 2
  /\ TemplatablePositions = {}

\* C27: live/replay resolver equivalence.  For every (title, variant) pair, the key
\* processOrderPayload resolves is the key webhookHandler resolves.
C27_ResolverEquivalence ==
  \A r1, r2 \in resolver.keys : r1.key = r2.key

\* the decimal numeral of n, one character per digit, most significant first
Numeral(n) ==
  LET len == CHOOSE l \in 1..4 : (l = 1 \/ n >= 10 ^ (l - 1)) /\ n < 10 ^ l
  IN  [i \in 1..len |-> DigitChars[((n \div (10 ^ (len - i))) % 10) + 1]]

\* the payload processOrderPayload is running on mirrors the order node field by field
Reshaped(payload) ==
  /\ payload.admin_graphql_api_id = order.id
  /\ Len(payload.line_items) = Len(order.lineItems)
  /\ \A k \in 1..Len(order.lineItems) :
       LET item == payload.line_items[k]
           node == order.lineItems[k]
       IN  /\ item.title = node.title
           /\ item.variant_title = node.variantTitle
           /\ Numeral(item.id) = node.id[5]
           /\ Len(item.properties) = Len(node.customAttributes)
           /\ \A j \in 1..Len(node.customAttributes) :
                /\ item.properties[j].name = node.customAttributes[j].key
                /\ item.properties[j].value = node.customAttributes[j].value
                /\ DOMAIN item.properties[j] = {"name", "value"}
           /\ propValueTruthy(item)
                <=> \E j \in 1..Len(node.customAttributes) :
                      /\ node.customAttributes[j].key = CALL_SIGN
                      /\ node.customAttributes[j].value # ""

\* C28: replay payload reshaping.  The payload main() hands to processOrderPayload has the
\* order's line items in the order's order, title and variant copied, each customAttribute
\* {key, value} turned into a property {name, value} in place, the id the number the last
\* segment of the global id spells, and admin_graphql_api_id the order's id; so an item is
\* customizable in the payload iff the order's item carries a non-empty call_sign.
C28_PayloadReshaping ==
  replay.pc = "call" => Reshaped(replay.run.payload)

\* processOrderPayload is running on an order of three line items, the first and the last
\* different, some customizable and some not
C28_Witness ==
  /\ replay.pc = "call"
  /\ Len(order.lineItems) = 3
  /\ order.lineItems[1].title # order.lineItems[3].title
       \/ order.lineItems[1].customAttributes # order.lineItems[3].customAttributes
  /\ \E k \in 1..3 : propValueTruthy(replay.run.payload.line_items[k])
  /\ \E k \in 1..3 : ~propValueTruthy(replay.run.payload.line_items[k])

\* the results an invocation can return with
TerminalResults == {"updated", "nothing", "failed", "errors"}

\* everything has returned: every delivery that parsed and every row that was processed
\* has one record of how it ended
Terminated ==
  /\ Quiescent
  /\ \A d \in DOMAIN live :
       responses[d].delivery = "valid" =>
         \E f \in finished : f.rid = LiveRid(d) /\ f.result \in TerminalResults
  /\ \A q \in queries :
       q.outcome = "processed" =>
         \E f \in finished : f.rid = ReplayRid(q.row) /\ f.result \in TerminalResults

\* nothing is done twice: one put at most per invocation and item, one record per
\* invocation that returned, one query per row
NothingRepeated ==
  /\ \A p1, p2 \in puts : (p1.rid = p2.rid /\ p1.item = p2.item) => p1 = p2
  /\ \A f1, f2 \in finished : f1.rid = f2.rid => f1 = f2
  /\ \A q1, q2 \in queries : q1.row = q2.row => q1 = q2

\* an invocation only moves forward through the line items and stays returned once it
\* has returned; main() only moves forward through the rows and stays complete
OnlyForward ==
  /\ \A d \in DOMAIN live :
       /\ live[d].pc = "done" => live'[d] = live[d]
       /\ live[d].pc \in {"items", "annotate"} =>
            /\ live'[d].i >= live[d].i
            /\ live'[d] # live[d] => live'[d].i > live[d].i \/ live'[d].pc = "done"
  /\ replay.pc # "start" => replay'.row >= replay.row
  /\ replay.pc = "complete" => replay' = replay
  /\ (replay.pc = "call" /\ replay'.pc = "call" /\ replay'.row = replay.row) =>
       replay'.run.i >= replay.run.i

\* C29: termination.  As long as every external call returns or fails, every delivery and
\* every row reaches a terminal state and main() completes, for good; no invocation goes
\* back to an item or goes on after it returned, main() never goes back to a row, and no
\* put, query or return happens twice.
C29_Termination ==
  /\ <>[]Terminated
  /\ [](NothingRepeated)
  /\ [][OnlyForward]_vars

\* everything has returned, one invocation having failed and another having annotated
C29_Witness ==
  /\ Terminated
  /\ \E f1, f2 \in finished : f1.result = "failed" /\ f2.result = "updated"

====
